---- MODULE Spec2Model ----
(***************************************************************************)
(* Model of repository/user_repository.go: UserRepository over the users   *)
(* table of a PostgreSQL store.  Every repository method issues exactly    *)
(* one SQL statement, so a call is one atomic step of the store; calls of  *)
(* several callers interleave as steps.                                    *)
(***************************************************************************)
EXTENDS Integers, Sequences, FiniteSets, TLC

VARIABLES
  users,      \* the rows of table users
  seq,        \* the next value of the SERIAL sequence behind users.id
  now,        \* the store's clock, in days
  ret,        \* the last call: method, arguments and what it returned
  live,       \* history: the rows as the successful calls wrote them
  pristine,   \* history: users returned by Create, not updated or deleted since
  deleted,    \* history: the ids whose Delete succeeded
  lastCount,  \* history: the value a caller kept from CountUsers
  lastList,   \* history: the length a caller kept from List
  tx,         \* the transaction a caller opened on the handle
  pend,       \* per caller, the call it has in flight on the shared handle
  start,      \* the table and sequence when the calls in flight began
  harness,    \* TestMain: where it is, its container, handle and deferred calls
  cursors,    \* the result sets open on the handle
  test        \* the test case that is running: where it is, what it deferred

vars == <<users, seq, now, ret, live, pristine, deleted, lastCount, lastList, tx,
          pend, start, harness, cursors, test>>

\* what the repository's methods never touch
aux == <<tx, pend, start, harness, cursors, test>>

\* what the multi-row methods never touch
held == <<tx, pend, start, harness, test>>

(* ------------------------------ bounds --------------------------------- *)
\* largest value the id sequence hands out
MaxSeq == 3
\* last instant of the store clock, in days
MaxClock == 2
\* last instant of the store clock where rows age past a day count
MaxAgeClock == 3

(* ------------------------------ inputs --------------------------------- *)
\* the emails, names, patterns and day counts callers pass
Emails == {"alice@example.com", "bob@example.com", "charlie@example.com"}

Names == {"Al SMITH"}

Patterns == {"%Smith%", "%NonExistent%", "%smith%", "_o%"}

Days == {1}

\* the day counts passed where rows age
AgeDays == {1, 2}

\* an id no row ever has (the tests' "non-existent user")
MissingID == 9999

IdArgs == (1..MaxSeq) \cup {MissingID}

\* the characters of the names and patterns above
Chars(s) ==
  CASE s = "Alice Smith" -> <<"A","l","i","c","e"," ","S","m","i","t","h">>
    [] s = "Bob Johnson" -> <<"B","o","b"," ","J","o","h","n","s","o","n">>
    [] s = "Al SMITH" -> <<"A","l"," ","S","M","I","T","H">>
    [] s = "%Smith%" -> <<"%","S","m","i","t","h","%">>
    [] s = "%NonExistent%" -> <<"%","N","o","n","E","x","i","s","t","e","n","t","%">>
    [] s = "%smith%" -> <<"%","s","m","i","t","h","%">>
    [] s = "_o%" -> <<"_","o","%">>
    [] s = "" -> <<>>

(* --------------------------- Go values --------------------------------- *)
\* a nil error
NilErr == [msg |-> "nil", cause |-> "nil"]

\* fmt.Errorf(msg): a new error that wraps nothing
Errorf(msg) == [msg |-> msg, cause |-> "nil"]

\* fmt.Errorf(msg + ": %w", err): a new error whose Unwrap() is err
ErrorfW(msg, err) == [msg |-> msg, cause |-> err]

\* low-level errors of database/sql and the driver
ErrNoRows == "sql: no rows in result set"

ErrUnique == "pq: duplicate key value violates unique constraint"

ErrConn == "driver: bad connection"

ErrIter == "pq: error while reading rows"

ErrScan == "sql: Scan error on column index 3"

\* var user models.User: the zero value
ZeroUser == [ID |-> 0, Email |-> "", Name |-> "", CreatedAt |-> 0]

\* a nil *models.User
NilUser == [isNil |-> TRUE, val |-> ZeroUser]

\* &user
Ptr(u) == [isNil |-> FALSE, val |-> u]

\* var users []models.User: the nil slice
NilSlice == [isNil |-> TRUE, elems |-> <<>>]

\* append(users, user)
AppendSlice(s, u) == [isNil |-> FALSE, elems |-> Append(s.elems, u)]

\* rows.Scan into a models.User
ScanUser(row) ==
  [ID |-> row.id, Email |-> row.email, Name |-> row.name, CreatedAt |-> row.created_at]

(* --------------------------- the store --------------------------------- *)
\* rows of the table that init.sql seeds, as the tests read them back
SeedRows ==
  { [id |-> 1, email |-> "alice@example.com", name |-> "Alice Smith", created_at |-> 1],
    [id |-> 2, email |-> "bob@example.com", name |-> "Bob Johnson", created_at |-> 1] }

RowById(tbl, id) == CHOOSE r \in tbl : r.id = id

RowByEmail(tbl, email) == CHOOSE r \in tbl : r.email = email

HasId(tbl, id) == \E r \in tbl : r.id = id

HasEmail(tbl, email) == \E r \in tbl : r.email = email

\* ORDER BY id
RECURSIVE OrderById(_)
OrderById(tbl) ==
  IF tbl = {} THEN <<>>
  ELSE LET first == CHOOSE r \in tbl : \A q \in tbl : r.id <= q.id
       IN <<first>> \o OrderById(tbl \ {first})

\* lower-case folding of ILIKE
Lower(c) ==
  CASE c = "A" -> "a" [] c = "B" -> "b" [] c = "E" -> "e" [] c = "H" -> "h"
    [] c = "I" -> "i" [] c = "J" -> "j" [] c = "M" -> "m" [] c = "N" -> "n"
    [] c = "S" -> "s" [] c = "T" -> "t" [] c = "Y" -> "y"
    [] OTHER -> c

\* name ILIKE pattern: % matches any run of characters, _ any one character,
\* any other character matches itself regardless of letter case
RECURSIVE LikeFrom(_, _, _, _)
LikeFrom(s, p, i, j) ==
  IF j > Len(p) THEN i > Len(s)
  ELSE IF p[j] = "%" THEN \E k \in i..(Len(s) + 1) : LikeFrom(s, p, k, j + 1)
  ELSE /\ i <= Len(s)
       /\ (p[j] = "_" \/ Lower(p[j]) = Lower(s[i]))
       /\ LikeFrom(s, p, i + 1, j + 1)

\* LIKE in place of ILIKE: letters match only in the same case
RECURSIVE LikeCaseFrom(_, _, _, _)
LikeCaseFrom(s, p, i, j) ==
  IF j > Len(p) THEN i > Len(s)
  ELSE IF p[j] = "%" THEN \E k \in i..(Len(s) + 1) : LikeCaseFrom(s, p, k, j + 1)
  ELSE /\ i <= Len(s)
       /\ (p[j] = "_" \/ p[j] = s[i])
       /\ LikeCaseFrom(s, p, i + 1, j + 1)

Like(name, pattern) == LikeCaseFrom(Chars(name), Chars(pattern), 1, 1)

ILike(name, pattern) == LikeFrom(Chars(name), Chars(pattern), 1, 1)

\* SELECT ... FROM users WHERE id = $1, read by QueryRow(...).Scan
SelectById(tbl, id, fault) ==
  IF fault = "conn" THEN [low |-> ErrConn, user |-> ZeroUser]
  ELSE IF ~HasId(tbl, id) THEN [low |-> ErrNoRows, user |-> ZeroUser]
  ELSE [low |-> "nil", user |-> ScanUser(RowById(tbl, id))]

\* SELECT ... FROM users WHERE email = $1, read by QueryRow(...).Scan
SelectByEmail(tbl, email, fault) ==
  IF fault = "conn" THEN [low |-> ErrConn, user |-> ZeroUser]
  ELSE IF ~HasEmail(tbl, email) THEN [low |-> ErrNoRows, user |-> ZeroUser]
  ELSE [low |-> "nil", user |-> ScanUser(RowByEmail(tbl, email))]

\* InsertReturning with the id taken as MAX(id) + 1 in place of the sequence
InsertMaxId(tbl, sq, clock, email, name, fault) ==
  IF fault = "conn"
    THEN [low |-> ErrConn, user |-> ZeroUser, tbl |-> tbl, seq |-> sq]
  ELSE IF HasEmail(tbl, email)
    THEN [low |-> ErrUnique, user |-> ZeroUser, tbl |-> tbl, seq |-> sq + 1]
  ELSE LET top == IF tbl = {} THEN 0
                  ELSE CHOOSE n \in {r.id : r \in tbl} : \A r \in tbl : r.id <= n
           row == [id |-> top + 1, email |-> email, name |-> name, created_at |-> clock]
       IN [low |-> "nil", user |-> ScanUser(row), tbl |-> tbl \cup {row}, seq |-> sq + 1]

\* InsertReturning without the RETURNING clause: the user handed back is built
\* from the arguments and the sequence value, its CreatedAt left zero
InsertNoReturning(tbl, sq, clock, email, name, fault) ==
  IF fault = "conn"
    THEN [low |-> ErrConn, user |-> ZeroUser, tbl |-> tbl, seq |-> sq]
  ELSE IF HasEmail(tbl, email)
    THEN [low |-> ErrUnique, user |-> ZeroUser, tbl |-> tbl, seq |-> sq + 1]
  ELSE LET row == [id |-> sq, email |-> email, name |-> name, created_at |-> clock]
       IN [low |-> "nil", user |-> [ScanUser(row) EXCEPT !.CreatedAt = 0],
           tbl |-> tbl \cup {row}, seq |-> sq + 1]

\* InsertReturning with ON CONFLICT (email) DO UPDATE SET name: a duplicate
\* email overwrites the row that holds it
InsertUpsert(tbl, sq, clock, email, name, fault) ==
  IF fault = "conn"
    THEN [low |-> ErrConn, user |-> ZeroUser, tbl |-> tbl, seq |-> sq]
  ELSE IF HasEmail(tbl, email)
    THEN LET old == RowByEmail(tbl, email)
             new == [old EXCEPT !.name = name]
         IN [low |-> "nil", user |-> ScanUser(new), tbl |-> (tbl \ {old}) \cup {new},
             seq |-> sq + 1]
  ELSE LET row == [id |-> sq, email |-> email, name |-> name, created_at |-> clock]
       IN [low |-> "nil", user |-> ScanUser(row), tbl |-> tbl \cup {row}, seq |-> sq + 1]

\* INSERT INTO users (email, name) VALUES ($1, $2) RETURNING ...: id is the
\* next value of the SERIAL sequence, created_at the store's clock; the
\* sequence value is drawn before the UNIQUE check and is not given back
InsertReturning(tbl, sq, clock, email, name, fault) ==
  IF fault = "conn"
    THEN [low |-> ErrConn, user |-> ZeroUser, tbl |-> tbl, seq |-> sq]
  ELSE IF HasEmail(tbl, email)
    THEN [low |-> ErrUnique, user |-> ZeroUser, tbl |-> tbl, seq |-> sq + 1]
  ELSE LET row == [id |-> sq, email |-> email, name |-> name, created_at |-> clock]
       IN [low |-> "nil", user |-> ScanUser(row), tbl |-> tbl \cup {row}, seq |-> sq + 1]

\* ExecUpdate that also refreshes created_at (SET ..., created_at = NOW())
ExecUpdateTouch(tbl, id, email, name, fault) ==
  IF fault = "conn" THEN [low |-> ErrConn, rowsAffected |-> 0, tbl |-> tbl]
  ELSE IF ~HasId(tbl, id) THEN [low |-> "nil", rowsAffected |-> 0, tbl |-> tbl]
  ELSE LET old == RowById(tbl, id)
           new == [old EXCEPT !.email = email, !.name = name, !.created_at = now]
       IN IF HasEmail(tbl \ {old}, email)
            THEN [low |-> ErrUnique, rowsAffected |-> 0, tbl |-> tbl]
            ELSE [low |-> "nil", rowsAffected |-> 1, tbl |-> (tbl \ {old}) \cup {new}]

\* UPDATE users SET email = $1, name = $2 WHERE id = $3
\* ExecUpdate with the uniqueness check run against every row, the row's own
\* included
ExecUpdateOwnClash(tbl, id, email, name, fault) ==
  IF fault = "conn" THEN [low |-> ErrConn, rowsAffected |-> 0, tbl |-> tbl]
  ELSE IF ~HasId(tbl, id) THEN [low |-> "nil", rowsAffected |-> 0, tbl |-> tbl]
  ELSE LET old == RowById(tbl, id)
           new == [old EXCEPT !.email = email, !.name = name]
       IN IF HasEmail(tbl, email)
            THEN [low |-> ErrUnique, rowsAffected |-> 0, tbl |-> tbl]
            ELSE [low |-> "nil", rowsAffected |-> 1, tbl |-> (tbl \ {old}) \cup {new}]

ExecUpdate(tbl, id, email, name, fault) ==
  IF fault = "conn" THEN [low |-> ErrConn, rowsAffected |-> 0, tbl |-> tbl]
  ELSE IF ~HasId(tbl, id) THEN [low |-> "nil", rowsAffected |-> 0, tbl |-> tbl]
  ELSE LET old == RowById(tbl, id)
           new == [old EXCEPT !.email = email, !.name = name]
       IN IF HasEmail(tbl \ {old}, email)
            THEN [low |-> ErrUnique, rowsAffected |-> 0, tbl |-> tbl]
            ELSE [low |-> "nil", rowsAffected |-> 1, tbl |-> (tbl \ {old}) \cup {new}]

\* ExecDelete with the comparison turned round (WHERE id <= $1)
ExecDeleteUpTo(tbl, id, fault) ==
  IF fault = "conn" THEN [low |-> ErrConn, rowsAffected |-> 0, tbl |-> tbl]
  ELSE LET hit == {r \in tbl : r.id <= id}
       IN [low |-> "nil", rowsAffected |-> Cardinality(hit), tbl |-> tbl \ hit]

\* DELETE FROM users WHERE id = $1
ExecDelete(tbl, id, fault) ==
  IF fault = "conn" THEN [low |-> ErrConn, rowsAffected |-> 0, tbl |-> tbl]
  ELSE LET hit == {r \in tbl : r.id = id}
       IN [low |-> "nil", rowsAffected |-> Cardinality(hit), tbl |-> tbl \ hit]

\* MAX(id) in place of COUNT(*)
SelectMaxId(tbl, fault) ==
  IF fault = "conn" THEN [low |-> ErrConn, count |-> 0]
  ELSE [low |-> "nil",
        count |-> IF tbl = {} THEN 0 ELSE CHOOSE n \in {r.id : r \in tbl} : \A r \in tbl : r.id <= n]

\* SELECT COUNT(*) FROM users
SelectCount(tbl, fault) ==
  IF fault = "conn" THEN [low |-> ErrConn, count |-> 0]
  ELSE [low |-> "nil", count |-> Cardinality(tbl)]

\* the for rows.Next() { rows.Scan; append } loop of the multi-row methods
RECURSIVE ScanRows(_, _)
ScanRows(rows, acc) ==
  IF rows = <<>> THEN acc
  ELSE ScanRows(Tail(rows), AppendSlice(acc, ScanUser(Head(rows))))

(* ------------------------- UserRepository ------------------------------ *)
\* what a method hands back: (*models.User, error), ([]models.User, error),
\* (int, error) or error; low is the error the database/sql call produced
Returns(user, list, count, err, low) ==
  [user |-> user, users |-> list, count |-> count, err |-> err, low |-> low]

\* GetByID that answers a missing row with the zero user and no error
GetByIDDefault(tbl, id, fault) ==
  LET q == SelectById(tbl, id, fault)
  IN IF q.low = ErrNoRows
       THEN Returns(Ptr(q.user), NilSlice, 0, NilErr, q.low)
     ELSE IF q.low # "nil"
       THEN Returns(NilUser, NilSlice, 0, ErrorfW("failed to get user", q.low), q.low)
     ELSE Returns(Ptr(q.user), NilSlice, 0, NilErr, q.low)

GetByIDRes(tbl, id, fault) ==
  LET q == SelectById(tbl, id, fault)
  IN IF q.low = ErrNoRows
       THEN Returns(NilUser, NilSlice, 0, Errorf("user not found"), q.low)
     ELSE IF q.low # "nil"
       THEN Returns(NilUser, NilSlice, 0, ErrorfW("failed to get user", q.low), q.low)
     ELSE Returns(Ptr(q.user), NilSlice, 0, NilErr, q.low)

GetByEmailRes(tbl, email, fault) ==
  LET q == SelectByEmail(tbl, email, fault)
  IN IF q.low = ErrNoRows
       THEN Returns(NilUser, NilSlice, 0, Errorf("user not found"), q.low)
     ELSE IF q.low # "nil"
       THEN Returns(NilUser, NilSlice, 0, ErrorfW("failed to get user", q.low), q.low)
     ELSE Returns(Ptr(q.user), NilSlice, 0, NilErr, q.low)

CreateRes(q) ==
  IF q.low # "nil"
    THEN Returns(NilUser, NilSlice, 0, ErrorfW("failed to create user", q.low), q.low)
    ELSE Returns(Ptr(q.user), NilSlice, 0, NilErr, q.low)

UpdateRes(q) ==
  IF q.low # "nil"
    THEN Returns(NilUser, NilSlice, 0, ErrorfW("failed to update user", q.low), q.low)
  ELSE IF q.rowsAffected = 0
    THEN Returns(NilUser, NilSlice, 0, Errorf("user not found"), q.low)
  ELSE Returns(NilUser, NilSlice, 0, NilErr, q.low)

DeleteRes(q) ==
  IF q.low # "nil"
    THEN Returns(NilUser, NilSlice, 0, ErrorfW("failed to delete user", q.low), q.low)
  ELSE IF q.rowsAffected = 0
    THEN Returns(NilUser, NilSlice, 0, Errorf("user not found"), q.low)
  ELSE Returns(NilUser, NilSlice, 0, NilErr, q.low)

\* the body shared by List, FindByNamePattern and GetRecentUsers, given the
\* rows the query yields in order
CollectRes(rows, fault, what) ==
  IF fault = "conn"
    THEN Returns(NilUser, NilSlice, 0, ErrorfW(what, ErrConn), ErrConn)
  ELSE IF fault = "scan" /\ rows # <<>>
    THEN Returns(NilUser, NilSlice, 0, ErrorfW("failed to scan user", ErrScan), ErrScan)
  ELSE LET scanned == ScanRows(rows, NilSlice)
       IN IF fault = "iter"
            THEN Returns(NilUser, NilSlice, 0, ErrorfW("error iterating users", ErrIter), ErrIter)
            ELSE Returns(NilUser, scanned, 0, NilErr, "nil")

\* the result sets a multi-row method leaves open when rows.Close() is the
\* last statement of the method in place of a deferred call
CursorsLeftNoDefer(rows, fault) ==
  IF fault = "conn" THEN 0
  ELSE IF (fault = "scan" /\ rows # <<>>) \/ fault = "iter" THEN 1
  ELSE 0

\* the result sets a multi-row method leaves open: a failed Query opens
\* none; otherwise `defer rows.Close()` is registered right after the
\* Query and runs at every return
CursorsLeft(rows, fault) ==
  IF fault = "conn" THEN 0
  ELSE LET opened == 1
           deferred == <<"rows.Close">>
       IN opened - Len(deferred)

\* ORDER BY id DESC
RECURSIVE OrderByIdDesc(_)
OrderByIdDesc(tbl) ==
  IF tbl = {} THEN <<>>
  ELSE LET first == CHOOSE r \in tbl : \A q \in tbl : r.id >= q.id
       IN <<first>> \o OrderByIdDesc(tbl \ {first})

\* List with the order turned round
ListDesc(tbl, fault) == CollectRes(OrderByIdDesc(tbl), fault, "failed to list users")

ListRes(tbl, fault) == CollectRes(OrderById(tbl), fault, "failed to list users")

FindByNamePatternRes(tbl, pattern, fault) ==
  CollectRes(OrderById({r \in tbl : ILike(r.name, pattern)}), fault,
             "failed to find users by pattern")

CountUsersRes(tbl, fault) ==
  LET q == SelectCount(tbl, fault)
  IN IF q.low # "nil"
       THEN Returns(NilUser, NilSlice, 0, ErrorfW("failed to count users", q.low), q.low)
       ELSE Returns(NilUser, NilSlice, q.count, NilErr, q.low)

\* the decimal digits
Digits == <<"0", "1", "2", "3", "4", "5", "6", "7", "8", "9">>

\* fmt's %d: the decimal text of n
RECURSIVE Itoa(_)
Itoa(n) ==
  IF n < 0 THEN <<"-">> \o Itoa(0 - n)
  ELSE IF n < 10 THEN <<Digits[n + 1]>>
  ELSE Itoa(n \div 10) \o <<Digits[(n % 10) + 1]>>

\* the store reading a decimal text back as a number
RECURSIVE Atoi(_)
Atoi(t) ==
  IF t = <<>> THEN 0
  ELSE IF Head(t) = "-" THEN 0 - Atoi(Tail(t))
  ELSE LET d == CHOOSE k \in 0..9 : Digits[k + 1] = t[Len(t)]
       IN 10 * Atoi(SubSeq(t, 1, Len(t) - 1)) + d

\* fmt.Sprintf(query, days): the day count written into the statement text
RecentQuery(days) ==
  <<"SELECT id, email, name, created_at FROM users WHERE created_at >= NOW() - INTERVAL '">>
    \o Itoa(days) \o <<" days' ORDER BY created_at DESC">>

\* the day count the store reads in the INTERVAL literal of the text
IntervalDays(text) == Atoi(SubSeq(text, 2, Len(text) - 1))

\* the rows not older than the interval: created_at > NOW() - INTERVAL
RecentStrict(tbl, clock, days) == {r \in tbl : r.created_at > clock - days}

\* WHERE created_at >= NOW() - INTERVAL '<days> days'
Recent(tbl, clock, days) == {r \in tbl : r.created_at >= clock - days}

\* ORDER BY created_at DESC: every order of the rows in which created_at
\* never increases (rows of equal created_at come in any order)
OrdersByCreatedDesc(rows) ==
  {o \in [1..Cardinality(rows) -> rows] :
     /\ \A i, j \in DOMAIN o : i < j => (o[i] # o[j] /\ o[i].created_at >= o[j].created_at)}

GetRecentUsersRes(rows, fault) == CollectRes(rows, fault, "failed to get recent users")

(* ----------------------------- calls ----------------------------------- *)
NoArgs == [id |-> 0, email |-> "", name |-> "", pattern |-> "", days |-> 0]

\* the statement a method sends: its text and the values bound to $1, $2, ...
QueryOf(op, args) ==
  CASE op = "GetByID" ->
         [text |-> <<"SELECT id, email, name, created_at FROM users WHERE id = $1">>,
          bound |-> {"id"}]
    [] op = "GetByEmail" ->
         [text |-> <<"SELECT id, email, name, created_at FROM users WHERE email = $1">>,
          bound |-> {"email"}]
    [] op = "Create" ->
         [text |-> <<"INSERT INTO users (email, name) VALUES ($1, $2) RETURNING id, email, name, created_at">>,
          bound |-> {"email", "name"}]
    [] op = "Update" ->
         [text |-> <<"UPDATE users SET email = $1, name = $2 WHERE id = $3">>,
          bound |-> {"email", "name", "id"}]
    [] op = "Delete" ->
         [text |-> <<"DELETE FROM users WHERE id = $1">>, bound |-> {"id"}]
    [] op = "List" ->
         [text |-> <<"SELECT id, email, name, created_at FROM users ORDER BY id">>,
          bound |-> {}]
    [] op = "FindByNamePattern" ->
         [text |-> <<"SELECT id, email, name, created_at FROM users WHERE name ILIKE $1 ORDER BY id">>,
          bound |-> {"pattern"}]
    [] op = "CountUsers" ->
         [text |-> <<"SELECT COUNT(*) FROM users">>, bound |-> {}]
    [] op = "GetRecentUsers" ->
         [text |-> RecentQuery(args.days), bound |-> {}]
    [] OTHER -> [text |-> <<>>, bound |-> {}]

Call(op, args, res) == [op |-> op, args |-> args, res |-> res, sql |-> QueryOf(op, args)]

NoObs == [seen |-> FALSE, fresh |-> FALSE, val |-> 0]

Stale(obs) == [obs EXCEPT !.fresh = FALSE]

AsRow(u) == [id |-> u.ID, email |-> u.Email, name |-> u.Name, created_at |-> u.CreatedAt]

\* no test case has run yet
NoTest == [case |-> "none", pc |-> "idle", id |-> 0, deferred |-> <<>>, before |-> {},
           failed |-> FALSE]

\* TestMain before its first statement
NotStarted ==
  [pc |-> "RunContainer", container |-> "none", deferred |-> <<>>, db |-> "nil", code |-> 0]

\* TestMain inside m.Run(): container up, Terminate deferred, handle open
Booted ==
  [pc |-> "tests", container |-> "running", deferred |-> <<"Terminate">>, db |-> "open",
   code |-> 0]

\* callers sharing the one *sql.DB handle
Callers == {"c1", "c2"}

NoRes == [user |-> NilUser, list |-> NilSlice, count |-> 0, err |-> NilErr, low |-> "nil"]

Idle == [pc |-> "idle", op |-> "none", args |-> NoArgs, res |-> NoRes]

\* no transaction is open
NoTx == [state |-> "none", rows |-> {}, before |-> {}, countBefore |-> 0]

Init ==
  /\ users = SeedRows
  /\ seq = 3
  /\ now = 1
  /\ ret = Call("none", NoArgs, Returns(NilUser, NilSlice, 0, NilErr, "nil"))
  /\ live = SeedRows
  /\ pristine = {}
  /\ deleted = {}
  /\ lastCount = NoObs
  /\ lastList = NoObs
  /\ tx = NoTx
  /\ pend = [c \in Callers |-> Idle]
  /\ start = [tbl |-> SeedRows, seq |-> 3]
  /\ harness = Booted
  /\ cursors = 0
  /\ test = NoTest

\* GetByID sending DELETE ... RETURNING in place of SELECT: the row it hands
\* back is gone from the table
GetByIDTaking(id, fault) ==
  /\ ret' = Call("GetByID", [NoArgs EXCEPT !.id = id], GetByIDRes(users, id, fault))
  /\ users' = IF fault = "none" THEN {r \in users : r.id # id} ELSE users
  /\ UNCHANGED <<seq, now, live, pristine, deleted, lastCount, lastList>>
  /\ UNCHANGED aux

GetByID(id, fault) ==
  /\ ret' = Call("GetByID", [NoArgs EXCEPT !.id = id], GetByIDRes(users, id, fault))
  /\ UNCHANGED <<users, seq, now, live, pristine, deleted, lastCount, lastList>>
  /\ UNCHANGED aux

GetByEmail(email, fault) ==
  /\ ret' = Call("GetByEmail", [NoArgs EXCEPT !.email = email],
                 GetByEmailRes(users, email, fault))
  /\ UNCHANGED <<users, seq, now, live, pristine, deleted, lastCount, lastList>>
  /\ UNCHANGED aux

Create(email, name, fault) ==
  /\ seq <= MaxSeq
  /\ LET q == InsertReturning(users, seq, now, email, name, fault)
         res == CreateRes(q)
         ok == res.err = NilErr
     IN /\ users' = q.tbl
        /\ seq' = q.seq
        /\ ret' = Call("Create", [NoArgs EXCEPT !.email = email, !.name = name], res)
        /\ live' = IF ok THEN live \cup {AsRow(res.user.val)} ELSE live
        /\ pristine' = IF ok THEN pristine \cup {res.user.val} ELSE pristine
        /\ lastCount' = IF ok THEN Stale(lastCount) ELSE lastCount
        /\ lastList' = IF ok THEN Stale(lastList) ELSE lastList
  /\ UNCHANGED <<now, deleted>>
  /\ UNCHANGED aux

Update(id, email, name, fault) ==
  /\ LET q == ExecUpdate(users, id, email, name, fault)
         res == UpdateRes(q)
         ok == res.err = NilErr
     IN /\ users' = q.tbl
        /\ ret' = Call("Update", [NoArgs EXCEPT !.id = id, !.email = email, !.name = name], res)
        /\ live' = IF ok
                     THEN {IF r.id = id THEN [r EXCEPT !.email = email, !.name = name] ELSE r :
                             r \in live}
                     ELSE live
        /\ pristine' = IF ok THEN {u \in pristine : u.ID # id} ELSE pristine
  /\ UNCHANGED <<seq, now, deleted, lastCount, lastList>>
  /\ UNCHANGED aux

Delete(id, fault) ==
  /\ LET q == ExecDelete(users, id, fault)
         res == DeleteRes(q)
         ok == res.err = NilErr
     IN /\ users' = q.tbl
        /\ ret' = Call("Delete", [NoArgs EXCEPT !.id = id], res)
        /\ live' = IF ok THEN {r \in live : r.id # id} ELSE live
        /\ pristine' = IF ok THEN {u \in pristine : u.ID # id} ELSE pristine
        /\ deleted' = IF ok THEN deleted \cup {id} ELSE deleted
        /\ lastCount' = IF ok THEN Stale(lastCount) ELSE lastCount
        /\ lastList' = IF ok THEN Stale(lastList) ELSE lastList
  /\ UNCHANGED <<seq, now>>
  /\ UNCHANGED aux

List(fault, keep) ==
  /\ LET res == ListRes(users, fault)
     IN /\ ret' = Call("List", NoArgs, res)
        /\ lastList' = IF keep /\ res.err = NilErr
                         THEN [seen |-> TRUE, fresh |-> TRUE, val |-> Len(res.users.elems)]
                         ELSE lastList
  /\ cursors' = cursors + CursorsLeft(OrderById(users), fault)
  /\ UNCHANGED <<users, seq, now, live, pristine, deleted, lastCount>>
  /\ UNCHANGED held

FindByNamePattern(pattern, fault) ==
  /\ ret' = Call("FindByNamePattern", [NoArgs EXCEPT !.pattern = pattern],
                 FindByNamePatternRes(users, pattern, fault))
  /\ cursors' = cursors + CursorsLeft(OrderById({r \in users : ILike(r.name, pattern)}), fault)
  /\ UNCHANGED <<users, seq, now, live, pristine, deleted, lastCount, lastList>>
  /\ UNCHANGED held

CountUsers(fault, keep) ==
  /\ LET res == CountUsersRes(users, fault)
     IN /\ ret' = Call("CountUsers", NoArgs, res)
        /\ lastCount' = IF keep /\ res.err = NilErr
                          THEN [seen |-> TRUE, fresh |-> TRUE, val |-> res.count]
                          ELSE lastCount
  /\ UNCHANGED <<users, seq, now, live, pristine, deleted, lastList>>
  /\ UNCHANGED aux

GetRecentUsers(days, fault) ==
  /\ \E o \in OrdersByCreatedDesc(Recent(users, now, IntervalDays(RecentQuery(days)))) :
       /\ ret' = Call("GetRecentUsers", [NoArgs EXCEPT !.days = days],
                      GetRecentUsersRes(o, fault))
       /\ cursors' = cursors + CursorsLeft(o, fault)
  /\ UNCHANGED <<users, seq, now, live, pristine, deleted, lastCount, lastList>>
  /\ UNCHANGED held

\* the store's clock advances, up to instant last
Tick(last) ==
  /\ now < last
  /\ now' = now + 1
  /\ UNCHANGED <<users, seq, ret, live, pristine, deleted, lastCount, lastList>>
  /\ UNCHANGED aux

base == <<users, seq, now, ret, live, pristine, deleted, lastCount, lastList>>

\* the row the test's transaction inserts, and one whose email is taken
TxEmails == {"tx@example.com", "alice@example.com"}

\* testDB.Begin(), after the caller counted the users
\* what a transaction's steps leave alone besides the table's history
txOther == <<pend, start, harness, cursors, test>>

Begin ==
  /\ tx.state \in {"none", "rolledback"}
  /\ lastCount.fresh
  /\ tx' = [state |-> "open", rows |-> {}, before |-> users, countBefore |-> lastCount.val]
  /\ ret' = Call("Begin", NoArgs, Returns(NilUser, NilSlice, 0, NilErr, "nil"))
  /\ UNCHANGED <<users, seq, now, live, pristine, deleted, lastCount, lastList>>
  /\ UNCHANGED txOther

\* tx.Exec("INSERT INTO users (email, name) VALUES ($1, $2)", ...): the row
\* is the transaction's own until it commits; a taken email fails the
\* statement and the test stops there, the transaction left as it is
TxExec(email, name) ==
  /\ tx.state = "open"
  /\ seq <= MaxSeq
  /\ LET taken == HasEmail(users \cup tx.rows, email)
         row == [id |-> seq, email |-> email, name |-> name, created_at |-> now]
         err == IF taken THEN ErrUnique ELSE "nil"
     IN /\ tx' = IF taken THEN [tx EXCEPT !.state = "failed"]
                           ELSE [tx EXCEPT !.rows = @ \cup {row}]
        /\ ret' = Call("Exec", [NoArgs EXCEPT !.email = email, !.name = name],
                       Returns(NilUser, NilSlice, 0,
                               IF taken THEN Errorf(ErrUnique) ELSE NilErr, err))
  /\ seq' = seq + 1
  /\ UNCHANGED <<users, now, live, pristine, deleted, lastCount, lastList>>
  /\ UNCHANGED txOther

\* tx.Commit() in place of tx.Rollback(): the transaction's rows become rows
\* of the table
Commit ==
  /\ tx.state = "open"
  /\ users' = users \cup tx.rows
  /\ tx' = [tx EXCEPT !.state = "rolledback"]
  /\ ret' = Call("Rollback", NoArgs, Returns(NilUser, NilSlice, 0, NilErr, "nil"))
  /\ UNCHANGED <<seq, now, live, pristine, deleted, lastCount, lastList>>
  /\ UNCHANGED txOther

\* tx.Rollback(): the transaction's rows (kept in tx.rows as a record of
\* what it had inserted) never become rows of the table
Rollback ==
  /\ tx.state = "open"
  /\ tx' = [tx EXCEPT !.state = "rolledback"]
  /\ ret' = Call("Rollback", NoArgs, Returns(NilUser, NilSlice, 0, NilErr, "nil"))
  /\ UNCHANGED <<users, seq, now, live, pristine, deleted, lastCount, lastList>>
  /\ UNCHANGED txOther

(* ------------------------------------------------------------------ *)
(* Callers sharing the handle                                          *)
(* ------------------------------------------------------------------ *)

MaxConcSeq == 4

ConcEmails == {"charlie@example.com", "alice@example.com"}

ConcIds == {1, 2}

concOther == <<tx, harness, cursors, test>>

\* a method called with args on table tbl: what it returns and what the
\* table and the sequence are afterwards
MethodOf(op, args, tbl, sq, clock, fault) ==
  CASE op = "Create" ->
         LET q == InsertReturning(tbl, sq, clock, args.email, args.name, fault)
         IN [res |-> CreateRes(q), tbl |-> q.tbl, seq |-> q.seq]
    [] op = "Delete" ->
         LET q == ExecDelete(tbl, args.id, fault)
         IN [res |-> DeleteRes(q), tbl |-> q.tbl, seq |-> sq]
    [] op = "GetByID" ->
         [res |-> GetByIDRes(tbl, args.id, fault), tbl |-> tbl, seq |-> sq]
    [] OTHER ->
         [res |-> CountUsersRes(tbl, fault), tbl |-> tbl, seq |-> sq]

\* the one statement a method sends and what the method makes of its result
StmtOf(op, args, tbl, sq, clock) == MethodOf(op, args, tbl, sq, clock, "none")

\* a caller enters a method; the receiver holds nothing but the handle
Invoke(c, op, args) ==
  /\ pend[c].pc = "idle"
  /\ op = "Create" =>
       seq + Cardinality({d \in Callers : pend[d].pc = "called" /\ pend[d].op = "Create"})
         <= MaxConcSeq
  /\ pend' = [pend EXCEPT ![c] = [pc |-> "called", op |-> op, args |-> args, res |-> NoRes]]
  /\ UNCHANGED <<users, seq, now, ret, live, pristine, deleted, lastCount, lastList, start>>
  /\ UNCHANGED concOther

\* the statement is worked out on the table as it was when the calls began,
\* whatever another caller's statement has done to it since
RunStale(c) ==
  /\ pend[c].pc = "called"
  /\ LET s == StmtOf(pend[c].op, pend[c].args, start.tbl, seq, now)
     IN /\ users' = (users \ (start.tbl \ s.tbl)) \cup (s.tbl \ start.tbl)
        /\ seq' = s.seq
        /\ pend' = [pend EXCEPT ![c].pc = "ran", ![c].res = s.res]
  /\ UNCHANGED <<now, ret, live, pristine, deleted, lastCount, lastList, start>>
  /\ UNCHANGED concOther

\* the store runs the caller's statement: one statement, all of it or nothing
Run(c) ==
  /\ pend[c].pc = "called"
  /\ LET s == StmtOf(pend[c].op, pend[c].args, users, seq, now)
     IN /\ users' = s.tbl
        /\ seq' = s.seq
        /\ pend' = [pend EXCEPT ![c].pc = "ran", ![c].res = s.res]
  /\ UNCHANGED <<now, ret, live, pristine, deleted, lastCount, lastList, start>>
  /\ UNCHANGED concOther

\* the method returns to its caller
Return(c) ==
  /\ pend[c].pc = "ran"
  /\ pend' = [pend EXCEPT ![c].pc = "done"]
  /\ ret' = Call(pend[c].op, pend[c].args, pend[c].res)
  /\ UNCHANGED <<users, seq, now, live, pristine, deleted, lastCount, lastList, start>>
  /\ UNCHANGED concOther

\* every call has returned; the callers go on to their next calls
Settle ==
  /\ \A c \in Callers : pend[c].pc \in {"idle", "done"}
  /\ \E c \in Callers : pend[c].pc = "done"
  /\ pend' = [c \in Callers |-> Idle]
  /\ start' = [tbl |-> users, seq |-> seq]
  /\ UNCHANGED <<users, seq, now, ret, live, pristine, deleted, lastCount, lastList>>
  /\ UNCHANGED concOther

(* ------------------------------------------------------------------ *)
(* TestMain                                                            *)
(* ------------------------------------------------------------------ *)

harnessOther == <<tx, pend, start, cursors, test>>

\* os.Exit(code): the process ends at once; deferred calls are not run
OsExit(h, code) == [h EXCEPT !.pc = "exited", !.code = code]

\* the state after TestMain's setup step at pc: on failure os.Exit(1)
SetupStep(h, ok, next) == IF ok THEN [h EXCEPT !.pc = next] ELSE OsExit(h, 1)

\* postgres.RunContainer(...): err # nil => os.Exit(1)
RunContainer(ok) ==
  /\ harness.pc = "RunContainer"
  /\ harness' = SetupStep([harness EXCEPT !.container = IF ok THEN "running" ELSE "none"],
                          ok, "defer")
  /\ UNCHANGED base
  /\ UNCHANGED harnessOther

\* defer func() { postgresContainer.Terminate(ctx) }()
DeferTerminate ==
  /\ harness.pc = "defer"
  /\ harness' = [harness EXCEPT !.pc = "ConnectionString",
                                !.deferred = <<"Terminate">> \o @]
  /\ UNCHANGED base
  /\ UNCHANGED harnessOther

\* postgresContainer.ConnectionString(...): err # nil => os.Exit(1)
ConnectionString(ok) ==
  /\ harness.pc = "ConnectionString"
  /\ harness' = SetupStep(harness, ok, "Open")
  /\ UNCHANGED base
  /\ UNCHANGED harnessOther

\* sql.Open("postgres", connStr): err # nil => os.Exit(1)
Open(ok) ==
  /\ harness.pc = "Open"
  /\ harness' = SetupStep([harness EXCEPT !.db = IF ok THEN "open" ELSE "nil"], ok, "Ping")
  /\ UNCHANGED base
  /\ UNCHANGED harnessOther

\* testDB.Ping(): err # nil => os.Exit(1); otherwise m.Run() begins
Ping(ok) ==
  /\ harness.pc = "Ping"
  /\ harness' = SetupStep(harness, ok, "tests")
  /\ UNCHANGED base
  /\ UNCHANGED harnessOther

\* code := m.Run() returns: 0 when every test passed, 1 when one failed
RunReturns(code) ==
  /\ harness.pc = "tests"
  /\ harness' = [harness EXCEPT !.pc = "Close", !.code = code]
  /\ UNCHANGED base
  /\ UNCHANGED harnessOther

\* testDB.Close()
CloseDB ==
  /\ harness.pc = "Close"
  /\ harness' = [harness EXCEPT !.pc = "Exit", !.db = "closed"]
  /\ UNCHANGED base
  /\ UNCHANGED harnessOther

\* os.Exit(code), the last statement of TestMain
Exit ==
  /\ harness.pc = "Exit"
  /\ harness' = OsExit(harness, harness.code)
  /\ UNCHANGED base
  /\ UNCHANGED harnessOther

(* ------------------------------------------------------------------ *)
(* Test cases                                                          *)
(* ------------------------------------------------------------------ *)

MaxTestSeq == 4

testOther == <<tx, pend, start, harness, cursors>>

history == <<now, live, pristine, deleted, lastCount, lastList>>

\* the subtests that create rows or delete them, with the arguments of
\* their Create and whether they expect it to fail
Cases ==
  {[name |-> "TestCreate/Create New User", email |-> "charlie@example.com",
    userName |-> "Charlie Brown", expectError |-> FALSE],
   [name |-> "TestCreate/Create Duplicate Email", email |-> "alice@example.com",
    userName |-> "Another Alice", expectError |-> TRUE],
   [name |-> "TestDelete/Delete Existing User", email |-> "temp@example.com",
    userName |-> "Temporary User", expectError |-> FALSE],
   [name |-> "TestCreateUser_TableDriven/Valid User", email |-> "valid@example.com",
    userName |-> "Valid User", expectError |-> FALSE],
   [name |-> "TestCreateUser_TableDriven/Duplicate Email", email |-> "alice@example.com",
    userName |-> "Duplicate", expectError |-> TRUE]}

CaseOf(name) == CHOOSE c \in Cases : c.name = name

\* a statement of a test case may fail because the connection dropped
TestFaults == {"none", "conn"}

\* t.Run(name, ...) of one of the subtests
StartCase(c) ==
  /\ harness.pc = "tests"
  /\ test.pc \in {"idle", "finished"}
  /\ seq <= MaxTestSeq
  /\ test' = [case |-> c.name, pc |-> "Create", id |-> 0, deferred |-> <<>>,
              before |-> users, failed |-> FALSE]
  /\ UNCHANGED base
  /\ UNCHANGED testOther

\* where the subtest goes after its repo.Create returned (user, err)
AfterCreate(t, res) ==
  LET c == CaseOf(t.case)
      ok == res.err = NilErr
      id == IF ok THEN res.user.val.ID ELSE 0
  IN CASE c.name = "TestCreate/Create New User" ->
            IF ok THEN [t EXCEPT !.pc = "return", !.id = id, !.deferred = <<id>> \o @]
                  ELSE [t EXCEPT !.pc = "return", !.failed = TRUE]
       [] c.name = "TestCreate/Create Duplicate Email" ->
            [t EXCEPT !.pc = "return", !.id = id, !.failed = ok]
       [] c.name = "TestDelete/Delete Existing User" ->
            IF ok THEN [t EXCEPT !.pc = "Delete", !.id = id]
                  ELSE [t EXCEPT !.pc = "return", !.failed = TRUE]
       [] OTHER ->
            [t EXCEPT !.pc = "return", !.id = id,
                      !.failed = (c.expectError /\ ok) \/ (~c.expectError /\ ~ok),
                      !.deferred = IF ~c.expectError /\ ok THEN <<id>> \o @ ELSE @]

\* user, err := repo.Create(email, name) of the subtest
TestCreates(fault) ==
  /\ test.pc = "Create"
  /\ LET c == CaseOf(test.case)
         args == [NoArgs EXCEPT !.email = c.email, !.name = c.userName]
         m == MethodOf("Create", args, users, seq, now, fault)
     IN /\ users' = m.tbl
        /\ seq' = m.seq
        /\ ret' = Call("Create", args, m.res)
        /\ test' = AfterCreate(test, m.res)
  /\ UNCHANGED history
  /\ UNCHANGED testOther

\* err = repo.Delete(user.ID) of TestDelete; t.Fatalf when it fails
TestDeletes(fault) ==
  /\ test.pc = "Delete"
  /\ LET args == [NoArgs EXCEPT !.id = test.id]
         m == MethodOf("Delete", args, users, seq, now, fault)
     IN /\ users' = m.tbl
        /\ ret' = Call("Delete", args, m.res)
        /\ test' = IF m.res.err = NilErr
                     THEN [test EXCEPT !.pc = "GetByID"]
                     ELSE [test EXCEPT !.pc = "return", !.failed = TRUE]
  /\ UNCHANGED <<seq, now, live, pristine, deleted, lastCount, lastList>>
  /\ UNCHANGED testOther

\* _, err = repo.GetByID(user.ID) of TestDelete; t.Fatal when it finds the row
TestVerifies(fault) ==
  /\ test.pc = "GetByID"
  /\ LET args == [NoArgs EXCEPT !.id = test.id]
         m == MethodOf("GetByID", args, users, seq, now, fault)
     IN /\ ret' = Call("GetByID", args, m.res)
        /\ test' = [test EXCEPT !.pc = "return", !.failed = (m.res.err = NilErr)]
  /\ UNCHANGED <<users, seq, now, live, pristine, deleted, lastCount, lastList>>
  /\ UNCHANGED testOther

\* the subtest function returns or t.Fatal unwinds it: a deferred
\* repo.Delete(user.ID) runs, its error dropped
TestDeferred(fault) ==
  /\ test.pc = "return"
  /\ test.deferred # <<>>
  /\ LET args == [NoArgs EXCEPT !.id = Head(test.deferred)]
         m == MethodOf("Delete", args, users, seq, now, fault)
     IN /\ users' = m.tbl
        /\ ret' = Call("Delete", args, m.res)
        /\ test' = [test EXCEPT !.deferred = Tail(@)]
  /\ UNCHANGED <<seq, now, live, pristine, deleted, lastCount, lastList>>
  /\ UNCHANGED testOther

\* the subtest is over
TestEnds ==
  /\ test.pc = "return"
  /\ test.deferred = <<>>
  /\ test' = [test EXCEPT !.pc = "finished"]
  /\ UNCHANGED base
  /\ UNCHANGED testOther

\* what can go wrong in a multi-row method: the Query, a Scan, the iteration
RowFaults == {"none", "conn", "scan", "iter"}

\* the calls that change rows
Writes(single) ==
  \/ \E email \in Emails, name \in Names, f \in single : Create(email, name, f)
  \/ \E id \in IdArgs, email \in Emails, name \in Names, f \in single :
       Update(id, email, name, f)
  \/ \E id \in IdArgs, f \in single : Delete(id, f)

\* the calls that read; the caller keeps no result beyond the call
Reads(single, multi) ==
  \/ \E id \in IdArgs, f \in single : GetByID(id, f)
  \/ \E email \in Emails, f \in single : GetByEmail(email, f)
  \/ \E f \in multi : List(f, FALSE)
  \/ \E pattern \in Patterns, f \in multi : FindByNamePattern(pattern, f)
  \/ \E f \in single : CountUsers(f, FALSE)
  \/ \E days \in Days, f \in multi : GetRecentUsers(days, f)

\* the store stays reachable, as after the harness's Ping
Next == Writes({"none"}) \/ Reads({"none"}, {"none"}) \/ Tick(MaxClock)

Spec == Init /\ [][Next]_vars

\* statements may fail: the connection drops, or reading the rows breaks off
NextFault ==
  Writes({"none", "conn"}) \/ Reads({"none", "conn"}, {"none", "conn", "iter"})

SpecFault == Init /\ [][NextFault]_vars

\* callers that keep the value of their last CountUsers and List while
\* other callers create and delete rows
NextObs ==
  \/ \E email \in Emails, name \in Names : Create(email, name, "none")
  \/ \E id \in IdArgs : Delete(id, "none")
  \/ CountUsers("none", TRUE)
  \/ List("none", TRUE)

SpecObs == Init /\ [][NextObs]_vars

\* rows are created and age while callers ask for the recent ones
NextAge ==
  \/ \E email \in Emails, name \in Names : Create(email, name, "none")
  \/ \E id \in IdArgs : Delete(id, "none")
  \/ \E days \in AgeDays : GetRecentUsers(days, "none")
  \/ Tick(MaxAgeClock)

SpecAge == Init /\ [][NextAge]_vars

\* a caller counts, opens a transaction, inserts, rolls back and counts
\* again; the tests run one after another, so no other caller writes while
\* the transaction is open
NextTx ==
  \/ CountUsers("none", TRUE)
  \/ Begin
  \/ \E email \in TxEmails, name \in Names : TxExec(email, name)
  \/ Rollback
  \/ \E email \in TxEmails : GetByEmail(email, "none")
  \/ tx.state # "open" /\ \E id \in IdArgs : Delete(id, "none")
  \/ tx.state # "open" /\ \E email \in Emails, name \in Names : Create(email, name, "none")

SpecTx == Init /\ [][NextTx]_vars

\* two callers call Create, Delete and CountUsers on the same handle at
\* the same time
NextConc ==
  \/ \E c \in Callers, email \in ConcEmails, name \in Names :
       Invoke(c, "Create", [NoArgs EXCEPT !.email = email, !.name = name])
  \/ \E c \in Callers, id \in ConcIds : Invoke(c, "Delete", [NoArgs EXCEPT !.id = id])
  \/ \E c \in Callers : Invoke(c, "CountUsers", NoArgs)
  \/ \E c \in Callers : Run(c)
  \/ \E c \in Callers : Return(c)
  \/ Settle

SpecConc == Init /\ [][NextConc]_vars

\* m.Run(): the subtests of TestCreate, TestDelete and
\* TestCreateUser_TableDriven, one at a time
NextTests ==
  \/ \E c \in Cases : StartCase(c)
  \/ \E f \in TestFaults : TestCreates(f)
  \/ \E f \in TestFaults : TestDeletes(f)
  \/ \E f \in TestFaults : TestVerifies(f)
  \/ \E f \in TestFaults : TestDeferred(f)
  \/ TestEnds

SpecTests == Init /\ [][NextTests]_vars

\* the multi-row methods with the Query failing, a Scan failing and the
\* iteration breaking off, on tables of every size
NextCursor ==
  \/ \E email \in Emails, name \in Names : Create(email, name, "none")
  \/ \E id \in IdArgs : Delete(id, "none")
  \/ \E f \in RowFaults : List(f, FALSE)
  \/ \E pattern \in Patterns, f \in RowFaults : FindByNamePattern(pattern, f)
  \/ \E days \in Days, f \in RowFaults : GetRecentUsers(days, f)

SpecCursor == Init /\ [][NextCursor]_vars

\* TestMain from its first statement
InitHarness ==
  /\ users = SeedRows
  /\ seq = 3
  /\ now = 1
  /\ ret = Call("none", NoArgs, Returns(NilUser, NilSlice, 0, NilErr, "nil"))
  /\ live = SeedRows
  /\ pristine = {}
  /\ deleted = {}
  /\ lastCount = NoObs
  /\ lastList = NoObs
  /\ tx = NoTx
  /\ pend = [c \in Callers |-> Idle]
  /\ start = [tbl |-> SeedRows, seq |-> 3]
  /\ harness = NotStarted
  /\ cursors = 0
  /\ test = NoTest

\* TestMain sets up, the tests call the repository while m.Run() lasts,
\* TestMain leaves
NextHarness ==
  \/ \E ok \in BOOLEAN : RunContainer(ok)
  \/ DeferTerminate
  \/ \E ok \in BOOLEAN : ConnectionString(ok)
  \/ \E ok \in BOOLEAN : Open(ok)
  \/ \E ok \in BOOLEAN : Ping(ok)
  \/ harness.pc = "tests" /\ \E email \in Emails, name \in Names : Create(email, name, "none")
  \/ harness.pc = "tests" /\ \E id \in IdArgs : Delete(id, "none")
  \/ harness.pc = "tests" /\ \E id \in IdArgs : GetByID(id, "none")
  \/ \E code \in {0, 1} : RunReturns(code)
  \/ CloseDB
  \/ Exit

SpecHarness == InitHarness /\ [][NextHarness]_vars

(* ============================== claims ================================= *)
NotFound == Errorf("user not found")

\* the step is a call of op (every call overwrites ret; Tick leaves it)
IsCall(op) == ret'.op = op /\ now' = now

Found(u) == Returns(Ptr(u), NilSlice, 0, NilErr, "nil")

\* C1: a user that a successful Create returned, and that has not been
\* updated or deleted since, is read back by GetByID(id) and by
\* GetByEmail(email) with the id, email, name and createdAt Create returned;
\* the id is non-zero, createdAt is a time of the store's clock (never the
\* zero time), and the email and name are the ones given to Create.
C1_CreatedUserReadBack ==
  /\ \A u \in pristine :
       /\ u.ID # 0
       /\ u.CreatedAt # 0 /\ u.CreatedAt <= now
       /\ GetByIDRes(users, u.ID, "none") = Found(u)
       /\ GetByEmailRes(users, u.Email, "none") = Found(u)
       /\ (ret.op = "GetByID" /\ ret.args.id = u.ID) => ret.res = Found(u)
       /\ (ret.op = "GetByEmail" /\ ret.args.email = u.Email) => ret.res = Found(u)
  /\ (ret.op = "Create" /\ ret.res.err = NilErr) =>
       /\ ret.res.user.val \in pristine
       /\ ret.res.user.val.Email = ret.args.email
       /\ ret.res.user.val.Name = ret.args.name

\* a created user is read back by GetByID at a later time, after other rows
\* were deleted
C1_Witness ==
  /\ ret.op = "GetByID"
  /\ \E u \in pristine : ret.args.id = u.ID /\ ret.res = Found(u) /\ u.CreatedAt < now
  /\ deleted # {}

\* C2: Create with an email a live row holds fails with the store's
\* unique-constraint error wrapped in the returned error, returns no user,
\* and leaves every row as it was.
C2_DuplicateEmailRejected ==
  [][(IsCall("Create") /\ HasEmail(users, ret'.args.email))
       => /\ ret'.res.err = ErrorfW("failed to create user", ErrUnique)
          /\ ret'.res.user = NilUser
          /\ users' = users]_vars

C2_Witness ==
  /\ ret.op = "Create"
  /\ ret.res.err.cause = ErrUnique
  /\ ret.res.user.isNil
  /\ HasEmail(users, ret.args.email)
  /\ seq > 3

\* the rows of tbl with row old replaced by its update to (email, name)
Replaced(tbl, old, email, name) ==
  (tbl \ {old}) \cup {[id |-> old.id, email |-> email, name |-> name,
                       created_at |-> old.created_at]}

\* C3 as claimed: Update on an id without a row fails with NotFound and
\* changes no row; Update on an id with a row succeeds and changes exactly
\* that row's email and name.
C3_UpdateExistingSucceeds ==
  [][IsCall("Update")
       => IF HasId(users, ret'.args.id)
            THEN /\ ret'.res.err = NilErr
                 /\ users' = Replaced(users, RowById(users, ret'.args.id),
                                      ret'.args.email, ret'.args.name)
            ELSE /\ ret'.res.err = NotFound
                 /\ users' = users]_vars

\* C3 as amended: Update on an id without a row fails with NotFound and
\* changes no row; Update on an id with a row, to an email no other live row
\* holds, succeeds and changes exactly that row's email and name, leaving its
\* id and created_at and every other row as they were.
C3_UpdateFrame ==
  [][IsCall("Update")
       => IF ~HasId(users, ret'.args.id)
            THEN /\ ret'.res.err = NotFound
                 /\ ret'.res.low = "nil"
                 /\ users' = users
          ELSE IF ~HasEmail(users \ {RowById(users, ret'.args.id)}, ret'.args.email)
            THEN /\ ret'.res.err = NilErr
                 /\ users' = Replaced(users, RowById(users, ret'.args.id),
                                      ret'.args.email, ret'.args.name)
          ELSE TRUE]_vars

\* an Update went through on a row created earlier than now, beside another row
C3_Witness ==
  /\ ret.op = "Update"
  /\ ret.res.err = NilErr
  /\ \E r \in users :
       /\ r.id = ret.args.id /\ r.email = ret.args.email /\ r.name = ret.args.name
       /\ r.created_at < now
  /\ Cardinality(users) >= 2

\* C4: Delete on an id without a row fails with NotFound and changes nothing;
\* Delete on an id with a row removes that row and no other; from then on
\* GetByID of a deleted id, and another Delete of it, fail with NotFound.
C4_DeleteExactlyOnce ==
  [][/\ IsCall("Delete")
          => IF HasId(users, ret'.args.id)
               THEN /\ ret'.res.err = NilErr
                    /\ users' = users \ {RowById(users, ret'.args.id)}
               ELSE /\ ret'.res.err = NotFound
                    /\ users' = users
     /\ \A id \in deleted' :
          /\ GetByIDRes(users', id, "none").err = NotFound
          /\ GetByIDRes(users', id, "none").user = NilUser
          /\ DeleteRes(ExecDelete(users', id, "none")).err = NotFound
          /\ ((IsCall("GetByID") \/ IsCall("Delete")) /\ ret'.args.id = id /\ id \in deleted)
               => ret'.res.err = NotFound]_vars

\* a deleted id is looked up after a later Create went through
C4_Witness ==
  /\ ret.op = "GetByID"
  /\ ret.args.id \in deleted
  /\ ret.res.err = NotFound
  /\ \E r \in users : r.id > ret.args.id

\* the users of a slice, as rows
RowsOf(list) == {AsRow(list.elems[i]) : i \in DOMAIN list.elems}

Ascending(list) ==
  \A i, j \in DOMAIN list.elems : i < j => list.elems[i].ID < list.elems[j].ID

\* C5: List() returns the rows created (the seed rows included) and not
\* since deleted, each once, with the email and name last written to it, in
\* strictly ascending id order.
C5_ListIsLiveRowsAscending ==
  LET res == ListRes(users, "none")
  IN /\ res.err = NilErr
     /\ RowsOf(res.users) = live
     /\ Len(res.users.elems) = Cardinality(live)
     /\ Ascending(res.users)
     /\ \A r \in live : r.id \notin deleted
     /\ ret.op = "List" => ret.res = res

\* List after a row was created, one updated and one deleted
C5_Witness ==
  /\ ret.op = "List"
  /\ Len(ret.res.users.elems) >= 2
  /\ deleted # {}
  /\ \E r \in live : r.id >= 3
  /\ \E r \in live : r.id <= 2 /\ r.name = "Al SMITH"

\* C6 as claimed: a multi-row method that returns without error returns a
\* sequence that is not nil, also when it holds no user.
C6_EmptyResultNotNil ==
  (ret.op \in {"List", "FindByNamePattern", "GetRecentUsers"} /\ ret.res.err = NilErr)
    => ~ret.res.users.isNil

\* C7 as claimed: the value a caller got from CountUsers() equals the length
\* of the sequence a caller got from List(), whatever other callers created
\* or deleted in between.
C7_CountEqualsListLength ==
  (lastCount.seen /\ lastList.seen) => lastCount.val = lastList.val

\* C7 as amended: the value returned by CountUsers() equals the length of
\* the sequence returned by List() when no row was created or deleted
\* between the two calls.
C7_CountEqualsListLengthQuiet ==
  (lastCount.fresh /\ lastList.fresh) => lastCount.val = lastList.val

\* both were read after rows were created and deleted
C7_Witness ==
  /\ lastCount.fresh /\ lastList.fresh
  /\ deleted # {}
  /\ seq > 3
  /\ lastCount.val > 0

\* C8 as claimed: the error a method returns unwraps to the low-level error
\* its statement produced.
C8_CauseKept ==
  ret.res.low # "nil" => ret.res.err.cause = ret.res.low

\* the kind of failure a caller reads off a returned error
KindOf(err) ==
  IF err = NilErr THEN "ok"
  ELSE IF err = NotFound THEN "NotFound"
  ELSE IF err.cause = ErrUnique THEN "ConstraintViolation"
  ELSE IF err.cause = ErrConn THEN "ConnectivityFailure"
  ELSE IF err.msg = "error iterating users" THEN "IterationFailure"
  ELSE "other"

\* the row a GetByID or GetByEmail call asked for is missing
LookupMisses ==
  \/ ret.op = "GetByID" /\ ~HasId(users, ret.args.id)
  \/ ret.op = "GetByEmail" /\ ~HasEmail(users, ret.args.email)

\* C9: the caller can tell the failures apart from the returned error: a
\* lookup that reached the store and found no row returns NotFound and a nil
\* user; a failed connection, a violated constraint and a broken iteration
\* each return their own kind, none of them NotFound; a failed call returns
\* no user and no rows; a low-level error never comes back as success.
C9_ErrorKindsDistinct ==
  /\ (LookupMisses /\ ret.res.low # ErrConn)
       => KindOf(ret.res.err) = "NotFound" /\ ret.res.user = NilUser
  /\ ret.res.low = ErrNoRows => KindOf(ret.res.err) = "NotFound"
  /\ ret.res.low = ErrConn => KindOf(ret.res.err) = "ConnectivityFailure"
  /\ ret.res.low = ErrUnique => KindOf(ret.res.err) = "ConstraintViolation"
  /\ ret.res.low = ErrIter => KindOf(ret.res.err) = "IterationFailure"
  /\ ret.res.low # "nil" => ret.res.err # NilErr
  /\ ret.res.err # NilErr
       => ret.res.user = NilUser /\ ret.res.users = NilSlice /\ ret.res.count = 0
  /\ KindOf(ret.res.err) # "other"
  /\ (ret.op \in {"GetByID", "GetByEmail"} /\ ret.res.err = NilErr)
       => ~ret.res.user.isNil /\ ret.res.user.val.ID # 0

\* a lookup of a missing row failed on the connection, not as NotFound
C9_Witness ==
  /\ LookupMisses
  /\ ret.res.low = ErrConn
  /\ KindOf(ret.res.err) = "ConnectivityFailure"
  /\ deleted # {}

\* the letters of s in lower case
Fold(s) == [i \in 1..Len(s) |-> Lower(s[i])]

\* t occurs in s
Contains(s, t) == \E i \in 0..(Len(s) - Len(t)) : SubSeq(s, i + 1, i + Len(t)) = t

\* the lengths of the prefixes of s that the first k characters of p match
RECURSIVE MatchEnds(_, _, _)
MatchEnds(s, p, k) ==
  IF k = 0 THEN {0}
  ELSE LET before == MatchEnds(s, p, k - 1)
       IN IF p[k] = "%" THEN {j \in 0..Len(s) : \E i \in before : i <= j}
          ELSE {i + 1 : i \in {b \in before : b < Len(s) /\ (p[k] = "_" \/ p[k] = s[b + 1])}}

\* name matches pattern when letter case is ignored
Matches(name, pattern) ==
  Len(Chars(name)) \in MatchEnds(Fold(Chars(name)), Fold(Chars(pattern)), Len(Chars(pattern)))

\* C10: FindByNamePattern(pattern) returns, without error and in ascending
\* id order, each once, the live rows whose name matches the pattern with
\* letter case ignored; for "%Smith%" and "%smith%" these are the rows whose
\* name contains "smith" in any letter case; when none matches the sequence
\* is empty.
C10_FindByNamePattern ==
  ret.op = "FindByNamePattern" =>
    LET hits == {r \in users : Matches(r.name, ret.args.pattern)}
    IN /\ ret.res.err = NilErr
       /\ RowsOf(ret.res.users) = hits
       /\ Len(ret.res.users.elems) = Cardinality(hits)
       /\ Ascending(ret.res.users)
       /\ ret.args.pattern \in {"%Smith%", "%smith%"}
            => hits = {r \in users : Contains(Fold(Chars(r.name)), <<"s","m","i","t","h">>)}

\* "%smith%" finds both "Alice Smith" and "Al SMITH"
C10_Witness ==
  /\ ret.op = "FindByNamePattern"
  /\ ret.args.pattern = "%smith%"
  /\ Len(ret.res.users.elems) = 2
  /\ \E i \in DOMAIN ret.res.users.elems : ret.res.users.elems[i].Name = "Al SMITH"

Descending(list) ==
  \A i, j \in DOMAIN list.elems :
    i < j => list.elems[i].CreatedAt >= list.elems[j].CreatedAt

\* C11: GetRecentUsers(days), days positive, returns without error, each
\* once and ordered by createdAt descending, the live rows whose created_at
\* is at or after the store's time less days days; so GetRecentUsers(1)
\* returns the rows created at the time of the call and none created more
\* than one day before it.
C11_RecentUsers ==
  [][IsCall("GetRecentUsers")
       => LET days == ret'.args.days
              hits == {r \in users : r.created_at >= now - days}
              got == ret'.res.users
          IN /\ ret'.res.err = NilErr
             /\ RowsOf(got) = hits
             /\ Len(got.elems) = Cardinality(hits)
             /\ Descending(got)
             /\ days = 1 =>
                  /\ \A r \in users : r.created_at = now => r \in RowsOf(got)
                  /\ \A r \in users : now - r.created_at > 1 => r \notin RowsOf(got)]_vars

\* GetRecentUsers(1) returned the row just created and left out the seed
\* rows, by then two days old
C11_Witness ==
  /\ ret.op = "GetRecentUsers"
  /\ ret.args.days = 1
  /\ \E r \in users : r.created_at = now /\ r \in RowsOf(ret.res.users)
  /\ \E r \in users : now - r.created_at > 1 /\ r \notin RowsOf(ret.res.users)

\* C12: once a transaction that inserted rows is rolled back, the table is
\* what it was when the transaction began: CountUsers() returns the value
\* it returned before the transaction began, and GetByEmail of an inserted
\* email that no row held before returns NotFound.
C12_RollbackRestores ==
  [][/\ (tx.state = "open" /\ tx'.state = "rolledback") =>
          /\ users' = tx.before
          /\ CountUsersRes(users', "none").count = tx.countBefore
          /\ \A r \in tx.rows :
               /\ ~HasEmail(tx.before, r.email)
               /\ GetByEmailRes(users', r.email, "none").err = NotFound
               /\ GetByIDRes(users', r.id, "none").err = NotFound
     /\ (ret.op = "Rollback" /\ IsCall("CountUsers")) =>
          ret'.res.count = tx.countBefore
     /\ (ret.op = "Rollback" /\ IsCall("GetByEmail") /\ ~HasEmail(tx.before, ret'.args.email)) =>
          ret'.res.err = NotFound]_vars

\* CountUsers() after the rollback of a transaction that inserted
\* "tx@example.com"
C12_Witness ==
  /\ tx.state = "rolledback"
  /\ ret.op = "CountUsers"
  /\ ret.res.count = tx.countBefore
  /\ users = tx.before
  /\ \E r \in tx.rows : r.email = "tx@example.com"
  /\ ~HasEmail(users, "tx@example.com")

\* C13: whatever calls were made, failed ones included: no two live rows
\* have the same id, no two have the same email, and no live row has an id
\* that a deleted row had; every id handed out so far is below the next
\* value of the sequence, so a later Create gets an id no row ever had.
C13_KeysUniqueNeverReused ==
  /\ \A r, q \in users : r.id = q.id => r = q
  /\ \A r, q \in users : r.email = q.email => r = q
  /\ \A id \in deleted : ~HasId(users, id)
  /\ \A r \in users : r.id < seq
  /\ \A id \in deleted : id < seq
  /\ (ret.op = "Create" /\ ret.res.err = NilErr) =>
       ret.res.user.val.ID = seq - 1 /\ ret.res.user.val.ID \notin deleted

\* a Create went through after a row was deleted
C13_Witness ==
  /\ ret.op = "Create"
  /\ ret.res.err = NilErr
  /\ deleted # {}
  /\ HasId(users, ret.res.user.val.ID)

\* C14: an Update of an existing row to an email that another live row holds
\* fails with a constraint violation (neither NotFound nor success) and the
\* table is the same afterwards; an Update that gives a row the email it
\* already has succeeds and the row carries the given email and name.
C14_UpdateEmailClash ==
  [][IsCall("Update") /\ HasId(users, ret'.args.id) =>
       LET own == RowById(users, ret'.args.id)
           err == ret'.res.err
       IN /\ HasEmail(users \ {own}, ret'.args.email) =>
               /\ KindOf(err) = "ConstraintViolation"
               /\ err # NotFound
               /\ err # NilErr
               /\ users' = users
          /\ own.email = ret'.args.email =>
               /\ err = NilErr
               /\ users' = (users \ {own}) \cup {[own EXCEPT !.name = ret'.args.name]}]_vars

\* an Update was refused because a different live row holds the email
C14_Witness ==
  /\ ret.op = "Update"
  /\ KindOf(ret.res.err) = "ConstraintViolation"
  /\ HasId(users, ret.args.id)
  /\ RowById(users, ret.args.id).email # ret.args.email
  /\ HasEmail(users, ret.args.email)

\* the calls of this round whose statement has run
Ran == {c \in Callers : pend[c].pc \in {"ran", "done"}}

\* the orders in which the callers of S can be put one after another
Orders(S) ==
  {o \in [1..Cardinality(S) -> S] : \A i, j \in 1..Cardinality(S) : o[i] = o[j] => i = j}

RECURSIVE SerialRun(_, _, _, _)
\* the calls of the callers o[i..] made one after another on tbl
SerialRun(o, i, tbl, sq) ==
  IF i > Len(o) THEN [tbl |-> tbl, res |-> [c \in {} |-> NoRes]]
  ELSE LET s == StmtOf(pend[o[i]].op, pend[o[i]].args, tbl, sq, now)
           rest == SerialRun(o, i + 1, s.tbl, s.seq)
       IN [tbl |-> rest.tbl, res |-> (o[i] :> s.res) @@ rest.res]

\* C15: once no statement of the calls in flight is outstanding, the
\* results the callers got and the table are those of the same calls made
\* one after another in some order; of two overlapping Creates with the
\* same free email exactly one succeeds and the other gets a constraint
\* violation, and of two overlapping Deletes of the same live id exactly one
\* succeeds and the other gets NotFound.
C15_Serialisable ==
  (Ran # {} /\ \A c \in Callers : pend[c].pc # "called") =>
    /\ \E o \in Orders(Ran) :
         LET r == SerialRun(o, 1, start.tbl, start.seq)
         IN r.tbl = users /\ \A c \in Ran : r.res[c] = pend[c].res
    /\ \A a, b \in Ran :
         (a # b /\ pend[a].op = "Create" /\ pend[b].op = "Create"
            /\ pend[a].args.email = pend[b].args.email
            /\ ~HasEmail(start.tbl, pend[a].args.email)) =>
           \/ pend[a].res.err = NilErr /\ KindOf(pend[b].res.err) = "ConstraintViolation"
           \/ pend[b].res.err = NilErr /\ KindOf(pend[a].res.err) = "ConstraintViolation"
    /\ \A a, b \in Ran :
         (a # b /\ pend[a].op = "Delete" /\ pend[b].op = "Delete"
            /\ pend[a].args.id = pend[b].args.id
            /\ HasId(start.tbl, pend[a].args.id)) =>
           \/ pend[a].res.err = NilErr /\ pend[b].res.err = NotFound
           \/ pend[b].res.err = NilErr /\ pend[a].res.err = NotFound

\* two Creates of the same free email overlapped and both have returned
C15_Witness ==
  /\ \A c \in Callers : pend[c].pc = "done" /\ pend[c].op = "Create"
  /\ pend["c1"].args.email = pend["c2"].args.email
  /\ ~HasEmail(start.tbl, pend["c1"].args.email)
  /\ pend["c2"].res.err = NilErr
  /\ pend["c1"].res.err # NilErr

\* C16 as claimed: once the container has been started, the process never
\* ends with the container still up, whether setup failed after the start,
\* the tests passed or a test failed.
C16_ContainerTerminated ==
  (harness.pc = "exited" /\ harness.container # "none") => harness.container = "terminated"

MultiRow == {"List", "FindByNamePattern", "GetRecentUsers"}

\* C17: no result set is open once a call has returned, whichever way List,
\* FindByNamePattern or GetRecentUsers came back; and when a Scan failed or
\* the iteration broke off, the method returned an error with the nil
\* slice, the rows read so far dropped.
C17_CursorReleased ==
  /\ cursors = 0
  /\ (ret.op \in MultiRow /\ ret.res.low \in {ErrScan, ErrIter}) =>
       /\ ret.res.err # NilErr
       /\ ret.res.err.cause = ret.res.low
       /\ ret.res.users = NilSlice

\* a Scan failed part-way through a List of a table with rows
C17_Witness ==
  /\ ret.op = "List"
  /\ ret.res.low = ErrScan
  /\ users # {}
  /\ cursors = 0

\* the values a caller passes to each method
Supplied(op) ==
  CASE op = "GetByID" -> {"id"}
    [] op = "GetByEmail" -> {"email"}
    [] op = "Create" -> {"email", "name"}
    [] op = "Update" -> {"id", "email", "name"}
    [] op = "Delete" -> {"id"}
    [] op = "FindByNamePattern" -> {"pattern"}
    [] op = "GetRecentUsers" -> {"days"}
    [] OTHER -> {}

\* the arguments a call can carry
ArgSpace ==
  [id : IdArgs, email : Emails, name : Names, pattern : Patterns, days : AgeDays]

\* C18 as claimed: the statement a repository method sent has the text the
\* method sends for every other input too, and every value the caller
\* passed went to the store as a bound parameter.
C18_ValuesBoundTextFixed ==
  ret.op # "none" =>
    /\ \A a \in ArgSpace : QueryOf(ret.op, a).text = ret.sql.text
    /\ Supplied(ret.op) \subseteq ret.sql.bound

\* C19 as claimed: when a test case is over, passed or failed, the table
\* holds the rows it held when the test case began.
C19_TestLeavesNoRows ==
  test.pc = "finished" => users = test.before

ReadOps ==
  {"GetByID", "GetByEmail", "List", "FindByNamePattern", "CountUsers", "GetRecentUsers"}

\* C20: a call of GetByID, GetByEmail, List, FindByNamePattern, CountUsers
\* or GetRecentUsers, whether it returns a result or an error, leaves the
\* table as it was, row for row and field for field, and draws no value
\* from the id sequence.
C20_ReadsChangeNothing ==
  [][(\E op \in ReadOps : IsCall(op)) => (users' = users /\ seq' = seq)]_vars

\* a read failed on a table with rows, after a write had changed the table
C20_Witness ==
  /\ ret.op \in ReadOps
  /\ ret.res.low = ErrConn
  /\ ret.res.err # NilErr
  /\ users # {}
  /\ users # SeedRows

====
